---- MODULE Spec2Model ----
(***************************************************************************)
(* Page-replacement simulator (PageReplacement.tsx) as a state machine.    *)
(*                                                                         *)
(* The component keeps its state in React state cells.  A handler reads    *)
(* the cells through the closure of the render that created it and writes  *)
(* them through setters; setters given a function (prev => ...) apply it   *)
(* to the cell's current value.  The next-step button always carries the   *)
(* handler of the latest render.  The auto-play interval carries the       *)
(* handler of the render in which the effect last ran, i.e. the render     *)
(* that followed the last change of isPlaying or currentStep.  A           *)
(* replacement is finished by a setTimeout callback 500 ms after the step. *)
(* The isNarrating flag and its 3000 ms timers only drive a CSS animation  *)
(* and are read by no handler; they are left out.                          *)
(***************************************************************************)
EXTENDS Integers, Sequences, FiniteSets, TLC

VARIABLES
  pages,        \* useState<Page[]>: the resident list
  sequence,     \* useState<number[]>: the reference sequence
  currentStep,  \* useState: index of the next reference
  isPlaying,    \* useState: auto-play switched on
  algorithm,    \* useState: "FIFO" or "LRU"
  pageFaults,   \* useState: fault counter
  narration,    \* useState: the message shown (its class, algorithm, page)
  timeouts,     \* replacement callbacks registered by setTimeout(..., 500), oldest first
  interval,     \* the setInterval of the auto-play effect with the closure of its handler
  now,          \* the clock read by Date.now()
  crashed,      \* a render threw: React has unmounted the component
  event,        \* the handler that ran last and what it decided
  drive,        \* how the steps since the last restart were driven
  requests,       \* DiskScheduling useState<Request[]>: positions and served flags
  headPosition,   \* DiskScheduling useState: position of the head
  diskAlgorithm,  \* DiskScheduling useState algorithm: "FCFS", "SSTF" or "SCAN"
  diskIsPlaying,  \* DiskScheduling useState isPlaying
  direction,      \* DiskScheduling useState: "up" or "down" (SCAN)
  totalSeekTime,  \* DiskScheduling useState: accumulated seek time
  diskEvent       \* the DiskScheduling handler that ran last and the request it selected

diskVars == <<requests, headPosition, diskAlgorithm, diskIsPlaying, direction,
              totalSeekTime, diskEvent>>

pageVars == <<pages, sequence, currentStep, isPlaying, algorithm, pageFaults,
              narration, timeouts, interval, now, crashed, event, drive>>

vars == <<pages, sequence, currentStep, isPlaying, algorithm, pageFaults,
          narration, timeouts, interval, now, crashed, event, drive,
          requests, headPosition, diskAlgorithm, diskIsPlaying, direction,
          totalSeekTime, diskEvent>>

----------------------------------------------------------------------------
(* Bounds of the model *)

MaxNow == 12
MaxTimeouts == 3

----------------------------------------------------------------------------
(* Program constants *)

frameSize == 3
DefaultSequence == <<1, 3, 0, 3, 5, 6, 3>>
ReplaceDelay == 500
PlayInterval == 3500
Algorithms == {"FIFO", "LRU"}

----------------------------------------------------------------------------
(* Values of the Page[] array.  A JavaScript array can have holes (indices  *)
(* never assigned) and can hold undefined; both occur when a replacement    *)
(* callback writes past the end of a list that was emptied meanwhile.       *)

NoValue == -1

Page(i, t, prev) ==
  [id |-> i, timestamp |-> t, isEntering |-> TRUE, isLeaving |-> FALSE, prevValue |-> prev]

Hole ==
  [id |-> -2, timestamp |-> -2, isEntering |-> FALSE, isLeaving |-> FALSE, prevValue |-> NoValue]

Undefined ==
  [id |-> -3, timestamp |-> -3, isEntering |-> FALSE, isLeaving |-> FALSE, prevValue |-> NoValue]

IsPage(p) == p.id >= 0

\* [...arr]: iterating an array yields undefined for its holes
Spread(arr) == [i \in DOMAIN arr |-> IF arr[i] = Hole THEN Undefined ELSE arr[i]]

\* a slice that drops the last element instead of the first
SliceLast(arr) == IF Len(arr) = 0 THEN <<>> ELSE SubSeq(arr, 1, Len(arr) - 1)

\* arr.slice(1): keeps holes
Slice1(arr) == IF Len(arr) = 0 THEN <<>> ELSE Tail(arr)

\* arr.map(p => ({...p, isLeaving: false})): skips holes
ClearLeaving(arr) ==
  [i \in DOMAIN arr |-> IF arr[i] = Hole THEN Hole ELSE [arr[i] EXCEPT !.isLeaving = FALSE]]

\* prev.map((p, i) => (i === index ? {...p, isLeaving: true} : p)), index counted from 0
MarkLeaving(arr, index) ==
  [i \in DOMAIN arr |->
     IF arr[i] # Hole /\ i = index + 1 THEN [arr[i] EXCEPT !.isLeaving = TRUE] ELSE arr[i]]

\* prev.map((p) => (p.id === newPage ? {...p, timestamp: Date.now()} : p))
Touch(arr, newPage, t) ==
  [i \in DOMAIN arr |->
     IF arr[i] # Hole /\ arr[i].id = newPage THEN [arr[i] EXCEPT !.timestamp = t] ELSE arr[i]]

\* an assignment that appends the page instead of writing it at the index
AssignAtEnd(arr, index, page) == arr \o <<page>>

\* updatedPages[index] = page, index counted from 0; writing past the end leaves holes
AssignAt(arr, index, page) ==
  [i \in 1..(IF index + 1 > Len(arr) THEN index + 1 ELSE Len(arr)) |->
     IF i = index + 1 THEN page ELSE IF i <= Len(arr) THEN arr[i] ELSE Hole]

\* pages.some((p) => p.id === newPage): skips holes
SomeId(arr, newPage) == \E i \in DOMAIN arr : arr[i] # Hole /\ arr[i].id = newPage

\* the ids of the pages in the resident list
Ids(arr) == {arr[i].id : i \in {j \in DOMAIN arr : IsPage(arr[j])}}

\* pages.reduce((min, p, i, arr) => (p.timestamp < arr[min].timestamp ? i : min), 0):
\* skips holes; positions here are counted from 1
RECURSIVE Reduce(_, _, _)
Reduce(arr, i, min) ==
  IF i > Len(arr) THEN min
  ELSE IF arr[i] = Hole THEN Reduce(arr, i + 1, min)
  ELSE Reduce(arr, i + 1, IF arr[i].timestamp < arr[min].timestamp THEN i ELSE min)

\* the reduce callback reads arr[0].timestamp: a TypeError when slot 0 is a hole
ReduceThrows(arr) == Len(arr) > 0 /\ arr[1] = Hole /\ \E i \in DOMAIN arr : arr[i] # Hole

leastRecentIndex(arr) == Reduce(arr, 1, 1) - 1

\* the render maps over pages (page.isEntering) and builds Array(frameSize - pages.length)
RenderThrows(arr) == Len(arr) > frameSize \/ \E i \in DOMAIN arr : arr[i] = Undefined

----------------------------------------------------------------------------
(* Narration: the message is determined by its class, the algorithm and the page *)

Message(class, alg, page) == [class |-> class, algorithm |-> alg, page |-> page]

getNarration(step, newPage, isPageFault, alg) ==
  IF step = 0 THEN Message("start", alg, newPage)
  ELSE IF isPageFault THEN Message("fault", alg, newPage)
  ELSE Message("hit", alg, newPage)

----------------------------------------------------------------------------
(* The auto-play effect, deps [isPlaying, currentStep] *)

NoInterval == [active |-> FALSE, pages |-> <<>>, currentStep |-> 0, algorithm |-> "FIFO"]

Closure(p, s, a) == [active |-> TRUE, pages |-> p, currentStep |-> s, algorithm |-> a]

\* an effect whose cleanup leaves the interval running when isPlaying turns false
EffectWithoutCleanup(newPages, newStep, newPlaying, newAlg, newCrashed) ==
  IF newCrashed THEN NoInterval
  ELSE IF newPlaying = isPlaying /\ newStep = currentStep THEN interval
  ELSE IF newPlaying /\ newStep < Len(sequence) THEN Closure(newPages, newStep, newAlg)
  ELSE IF ~newPlaying /\ newStep < Len(sequence) THEN interval
  ELSE NoInterval

\* the interval after a render with the given new values
Effect(newPages, newStep, newPlaying, newAlg, newCrashed) ==
  IF newCrashed THEN NoInterval
  ELSE IF newPlaying = isPlaying /\ newStep = currentStep THEN interval
  ELSE IF newPlaying /\ newStep < Len(sequence) THEN Closure(newPages, newStep, newAlg)
  ELSE NoInterval

NoEvent == [op |-> "none", newPage |-> NoValue, isPageFault |-> FALSE, index |-> -1, threw |-> FALSE]

Join(d, by) == IF d = "none" \/ d = by THEN by ELSE "mixed"

----------------------------------------------------------------------------

\* Milliseconds (as far as they order the events) between the previous handler
\* and this one: a click and a timer callback can fall into the same millisecond,
\* two clicks or two timer callbacks do not.
Elapsed(other) == IF event.op = other THEN {0, 1} ELSE {1}

PageInit ==
  /\ pages = <<>>
  /\ sequence = DefaultSequence
  /\ currentStep = 0
  /\ isPlaying = FALSE
  /\ algorithm = "FIFO"
  /\ pageFaults = 0
  /\ narration = Message("", "", NoValue)
  /\ timeouts = <<>>
  /\ interval = NoInterval
  /\ now = 0
  /\ crashed = FALSE
  /\ event = NoEvent
  /\ drive = "none"

----------------------------------------------------------------------------
(* Disk-scheduling simulator (DiskScheduling).  The deps of its auto-play    *)
(* effect are every cell moveHead reads, so the interval always carries the  *)
(* handler of the latest render.                                             *)

diskSize == 200
InitialHead == 50
DiskAlgorithms == {"FCFS", "SSTF", "SCAN"}
DefaultRequests == <<98, 183, 37, 122, 14, 124, 65, 67>>

Request(p) == [position |-> p, isServed |-> FALSE]

NoDiskEvent == [op |-> "none", index |-> 0]

DiskInit(positions) ==
  /\ requests = [i \in DOMAIN positions |-> Request(positions[i])]
  /\ headPosition = InitialHead
  /\ diskAlgorithm = "FCFS"
  /\ diskIsPlaying = FALSE
  /\ direction = "up"
  /\ totalSeekTime = 0
  /\ diskEvent = NoDiskEvent

Init ==
  /\ PageInit
  /\ DiskInit(DefaultRequests)

Abs(x) == IF x < 0 THEN -x ELSE x

\* requests.filter((r) => !r.isServed), as the indices it keeps
Unserved(reqs) == {i \in DOMAIN reqs : ~reqs[i].isServed}

\* no request: find, reduce or sort(...)[0] gave undefined or null
NoRequest == 0

\* find on the reversed list
findLast(reqs) ==
  IF Unserved(reqs) = {} THEN NoRequest
  ELSE CHOOSE i \in Unserved(reqs) : \A j \in Unserved(reqs) : j <= i

\* requests.find((r) => !r.isServed)
find(reqs) ==
  IF Unserved(reqs) = {} THEN NoRequest
  ELSE CHOOSE i \in Unserved(reqs) : \A j \in Unserved(reqs) : i <= j

\* a reduce callback that lets a later request win a tie
closerOrEqual(reqs, head, closest, current) ==
  IF closest = NoRequest THEN current
  ELSE IF Abs(reqs[current].position - head) <= Abs(reqs[closest].position - head)
       THEN current ELSE closest

\* the reduce callback of SSTF
closer(reqs, head, closest, current) ==
  IF closest = NoRequest THEN current
  ELSE IF Abs(reqs[current].position - head) < Abs(reqs[closest].position - head)
       THEN current ELSE closest

\* .filter(unserved).reduce(callback, null), from index i on
RECURSIVE reduceClosest(_, _, _, _)
reduceClosest(reqs, head, closest, i) ==
  IF i > Len(reqs) THEN closest
  ELSE IF reqs[i].isServed THEN reduceClosest(reqs, head, closest, i + 1)
  ELSE reduceClosest(reqs, head, closer(reqs, head, closest, i), i + 1)

\* .sort((a, b) => b.position - a.position)[0] of the candidates S,
\* taken for the ascending sort
lowestAsHighest(reqs, S) ==
  IF S = {} THEN NoRequest
  ELSE CHOOSE i \in S : \A j \in S :
         \/ reqs[i].position > reqs[j].position
         \/ reqs[i].position = reqs[j].position /\ i <= j

\* .sort((a, b) => a.position - b.position)[0] of the candidates S: the sort is
\* stable, so among equal positions the earliest in the list comes first
lowest(reqs, S) ==
  IF S = {} THEN NoRequest
  ELSE CHOOSE i \in S : \A j \in S :
         \/ reqs[i].position < reqs[j].position
         \/ reqs[i].position = reqs[j].position /\ i <= j

\* .sort((a, b) => b.position - a.position)[0] of the candidates S
highest(reqs, S) ==
  IF S = {} THEN NoRequest
  ELSE CHOOSE i \in S : \A j \in S :
         \/ reqs[i].position > reqs[j].position
         \/ reqs[i].position = reqs[j].position /\ i <= j

\* a filter for the upward sweep that keeps every unserved request
everyUnserved(reqs, head) == Unserved(reqs)

\* unservedRequests.filter((r) => r.position >= headPosition)
atOrAbove(reqs, head) == {i \in Unserved(reqs) : reqs[i].position >= head}

\* unservedRequests.filter((r) => r.position < headPosition)
below(reqs, head) == {i \in Unserved(reqs) : reqs[i].position < head}

\* unservedRequests.filter((r) => r.position <= headPosition)
atOrBelow(reqs, head) == {i \in Unserved(reqs) : reqs[i].position <= head}

\* unservedRequests.filter((r) => r.position > headPosition)
above(reqs, head) == {i \in Unserved(reqs) : reqs[i].position > head}

\* the SCAN case of getNextRequest: the request and the direction it leaves
scan(reqs, head, dir) ==
  IF dir = "up" THEN
    LET nextUp == lowest(reqs, atOrAbove(reqs, head))
    IN  IF nextUp # NoRequest THEN [index |-> nextUp, direction |-> dir]
        ELSE [index |-> highest(reqs, below(reqs, head)), direction |-> "down"]
  ELSE
    LET nextDown == highest(reqs, atOrBelow(reqs, head))
    IN  IF nextDown # NoRequest THEN [index |-> nextDown, direction |-> dir]
        ELSE [index |-> lowest(reqs, above(reqs, head)), direction |-> "up"]

\* getNextRequest of a render with the cells alg, reqs, head and dir
getNextRequest(alg, reqs, head, dir) ==
  CASE alg = "FCFS" -> [index |-> find(reqs), direction |-> dir]
    [] alg = "SSTF" -> [index |-> reduceClosest(reqs, head, NoRequest, 1), direction |-> dir]
    [] alg = "SCAN" -> scan(reqs, head, dir)

\* a seek time that keeps its sign
seekTimeSigned(req, head) == req.position - head

\* Math.abs(nextRequest.position - headPosition)
seekTime(req, head) == Abs(req.position - head)

\* a map that marks every request at the position of the selected one
markSamePosition(reqs, index) ==
  [i \in DOMAIN reqs |->
     IF reqs[i].position = reqs[index].position THEN [reqs[i] EXCEPT !.isServed = TRUE]
     ELSE reqs[i]]

\* requests.map((r) => (r === nextRequest ? { ...r, isServed: true } : r))
markServed(reqs, index) ==
  [i \in DOMAIN reqs |->
     IF i = index THEN [reqs[i] EXCEPT !.isServed = TRUE] ELSE reqs[i]]

\* a moveHead that leaves isPlaying alone when it finds no request
moveHeadWithoutPause(op) ==
  LET nextRequest == getNextRequest(diskAlgorithm, requests, headPosition, direction)
  IN  /\ direction' = nextRequest.direction
      /\ IF nextRequest.index # NoRequest THEN
           /\ totalSeekTime' = totalSeekTime
                                 + seekTime(requests[nextRequest.index], headPosition)
           /\ headPosition' = requests[nextRequest.index].position
           /\ requests' = markServed(requests, nextRequest.index)
         ELSE
           UNCHANGED <<totalSeekTime, headPosition, requests>>
      /\ UNCHANGED diskIsPlaying
      /\ diskEvent' = [op |-> op, index |-> nextRequest.index]
      /\ UNCHANGED diskAlgorithm

\* moveHead of the latest render; setDirection inside getNextRequest is applied
\* whether or not a request is returned
moveHead(op) ==
  LET nextRequest == getNextRequest(diskAlgorithm, requests, headPosition, direction)
  IN  /\ direction' = nextRequest.direction
      /\ IF nextRequest.index # NoRequest THEN
           /\ totalSeekTime' = totalSeekTime
                                 + seekTime(requests[nextRequest.index], headPosition)
           /\ headPosition' = requests[nextRequest.index].position
           /\ requests' = markServed(requests, nextRequest.index)
           /\ UNCHANGED diskIsPlaying
         ELSE
           /\ diskIsPlaying' = FALSE
           /\ UNCHANGED <<totalSeekTime, headPosition, requests>>
      /\ diskEvent' = [op |-> op, index |-> nextRequest.index]
      /\ UNCHANGED diskAlgorithm

\* the "Próximo passo" button, disabled once no request is unserved
Disk_click ==
  /\ ~crashed
  /\ Unserved(requests) # {}
  /\ moveHead("click")
  /\ UNCHANGED pageVars

\* the interval set while isPlaying; each render renews it with its own moveHead
DiskTick ==
  /\ ~crashed
  /\ diskIsPlaying
  /\ moveHead("tick")
  /\ UNCHANGED pageVars

\* a reset that leaves the direction as it is
resetKeepingDirection ==
  /\ requests' = [i \in DOMAIN requests |-> [requests[i] EXCEPT !.isServed = FALSE]]
  /\ headPosition' = InitialHead
  /\ totalSeekTime' = 0
  /\ diskIsPlaying' = FALSE
  /\ UNCHANGED direction

\* reset()
reset ==
  /\ requests' = [i \in DOMAIN requests |-> [requests[i] EXCEPT !.isServed = FALSE]]
  /\ headPosition' = InitialHead
  /\ totalSeekTime' = 0
  /\ diskIsPlaying' = FALSE
  /\ direction' = "up"

\* the "Reiniciar" button
DiskReset ==
  /\ ~crashed
  /\ reset
  /\ diskEvent' = [op |-> "reset", index |-> NoRequest]
  /\ UNCHANGED diskAlgorithm
  /\ UNCHANGED pageVars

\* an algorithm button: setAlgorithm(alg); reset()
DiskSelect ==
  /\ ~crashed
  /\ \E alg \in DiskAlgorithms : diskAlgorithm' = alg
  /\ reset
  /\ diskEvent' = [op |-> "select", index |-> NoRequest]
  /\ UNCHANGED pageVars

\* the play/pause button
DiskToggle ==
  /\ ~crashed
  /\ diskIsPlaying' = ~diskIsPlaying
  /\ diskEvent' = [op |-> "toggle", index |-> NoRequest]
  /\ UNCHANGED <<requests, headPosition, diskAlgorithm, direction, totalSeekTime>>
  /\ UNCHANGED pageVars

\* What handleNext decides when it runs with the closure c (the pages, currentStep and
\* algorithm of its render) while the pages cell holds prev, at clock time t
StepOutcome(c, prev, t) ==
  LET newPage == sequence[c.currentStep + 1]
      isPageFault == ~SomeId(c.pages, newPage)
      full == ~(Len(c.pages) < frameSize)
      throws == isPageFault /\ full /\ c.algorithm = "LRU" /\ ReduceThrows(c.pages)
      index == IF ~isPageFault \/ ~full \/ throws THEN -1
               ELSE IF c.algorithm = "FIFO" THEN 0
               ELSE leastRecentIndex(c.pages)
      oldPage == IF index + 1 \in DOMAIN c.pages /\ c.pages[index + 1] # Hole
                 THEN c.pages[index + 1].id ELSE Undefined.id
  IN [newPage |-> newPage,
      isPageFault |-> isPageFault,
      threw |-> throws,
      index |-> index,
      replaces |-> isPageFault /\ full /\ ~throws,
      callback |-> [algorithm |-> c.algorithm, index |-> index, newPage |-> newPage,
                    oldPage |-> oldPage, at |-> t],
      pages |-> IF throws THEN prev
                ELSE IF isPageFault
                THEN IF ~full THEN Spread(prev) \o <<Page(newPage, t, NoValue)>>
                     ELSE MarkLeaving(prev, index)
                ELSE IF c.algorithm = "LRU" THEN Touch(prev, newPage, t)
                ELSE prev]

\* What the replacement callback cb does to the pages cell holding prev at clock time t.
\* Under FIFO the new page reads oldPage.id: a TypeError when slot 0 was a hole.
TimeoutOutcome(cb, prev, t) ==
  LET page == Page(cb.newPage, t, cb.oldPage)
      throws == cb.algorithm = "FIFO" /\ cb.oldPage = Undefined.id
      newPages == IF cb.algorithm = "FIFO"
                  THEN Spread(ClearLeaving(Slice1(prev))) \o <<page>>
                  ELSE AssignAt(Spread(prev), cb.index, page)
  IN [threw |-> throws, pages |-> IF throws THEN prev ELSE newPages]

\* a terminal branch that advances currentStep all the same
completeAdvancing(op) ==
  /\ narration' = Message("complete", "", NoValue)
  /\ event' = [NoEvent EXCEPT !.op = op]
  /\ currentStep' = currentStep + 1
  /\ UNCHANGED <<pages, pageFaults, timeouts, interval, crashed, isPlaying>>

\* handleNext when the sequence is consumed: only the narration changes
complete(op) ==
  /\ narration' = Message("complete", "", NoValue)
  /\ event' = [NoEvent EXCEPT !.op = op]
  /\ UNCHANGED <<pages, currentStep, pageFaults, timeouts, interval, crashed, isPlaying>>

\* handleNext run with the closure c at clock time t
handleNext(c, t, op) ==
  IF c.currentStep < Len(sequence) THEN
    LET o == StepOutcome(c, pages, t)
        newCrashed == RenderThrows(o.pages)
    IN /\ narration' = getNarration(c.currentStep, o.newPage, o.isPageFault, c.algorithm)
       /\ pageFaults' = IF o.isPageFault THEN pageFaults + 1 ELSE pageFaults
       /\ event' = [op |-> op, newPage |-> o.newPage, isPageFault |-> o.isPageFault,
                    index |-> o.index, threw |-> o.threw]
       /\ pages' = o.pages
       /\ currentStep' = IF o.threw THEN currentStep ELSE currentStep + 1
       /\ timeouts' = IF o.replaces THEN Append(timeouts, o.callback) ELSE timeouts
       /\ crashed' = newCrashed
       /\ interval' = Effect(o.pages, currentStep', isPlaying, algorithm, newCrashed)
       /\ isPlaying' = isPlaying
  ELSE complete(op)

\* the next-step button: onClick={handleNext}, disabled when the sequence is consumed
Next_click ==
  /\ ~crashed
  /\ currentStep < Len(sequence)
  /\ \E d \in Elapsed("timeout") :
       /\ now + d <= MaxNow
       /\ now' = now + d
       /\ handleNext(Closure(pages, currentStep, algorithm), now + d, "click")
  /\ Len(timeouts') <= MaxTimeouts
  /\ drive' = IF timeouts = <<>> THEN Join(drive, "manual") ELSE "mixed"
  /\ UNCHANGED <<sequence, algorithm>>
  /\ UNCHANGED diskVars

\* setInterval(handleNext, 3500): the handler of the render in which the effect ran.
\* Every pending replacement callback was registered before the interval and is
\* due after ReplaceDelay < PlayInterval, so it has run before the interval fires.
Tick ==
  /\ ~crashed
  /\ interval.active
  /\ ReplaceDelay < PlayInterval => timeouts = <<>>
  /\ now + 1 <= MaxNow
  /\ now' = now + 1
  /\ handleNext(interval, now + 1, "tick")
  /\ drive' = Join(drive, "auto")
  /\ UNCHANGED <<sequence, algorithm>>
  /\ UNCHANGED diskVars

\* the callback of setTimeout(..., 500) registered by a step that replaces a page
Timeout ==
  /\ ~crashed
  /\ timeouts # <<>>
  /\ \E d \in Elapsed("click") :
       LET cb == Head(timeouts)
           o == TimeoutOutcome(cb, pages, now + d)
       IN /\ now + d <= MaxNow
          /\ now + d > cb.at
          /\ now' = now + d
          /\ pages' = o.pages
          /\ crashed' = (o.threw \/ RenderThrows(o.pages))
          /\ interval' = Effect(o.pages, currentStep, isPlaying, algorithm, crashed')
          /\ event' = [NoEvent EXCEPT !.op = "timeout", !.newPage = cb.newPage,
                                      !.index = cb.index, !.threw = o.threw]
  /\ timeouts' = Tail(timeouts)
  /\ UNCHANGED <<sequence, currentStep, isPlaying, algorithm, pageFaults, narration, drive>>
  /\ UNCHANGED diskVars

\* reset(): does not cancel the replacement callbacks
resetState ==
  /\ pages' = <<>>
  /\ currentStep' = 0
  /\ pageFaults' = 0
  /\ isPlaying' = FALSE
  /\ narration' = Message("reset", "", NoValue)
  /\ drive' = IF timeouts = <<>> THEN "none" ELSE "mixed"
  /\ UNCHANGED <<sequence, timeouts, now, crashed>>

\* the restart button: onClick={reset}
Reset ==
  /\ ~crashed
  /\ resetState
  /\ interval' = Effect(<<>>, 0, FALSE, algorithm, FALSE)
  /\ event' = [NoEvent EXCEPT !.op = "reset"]
  /\ UNCHANGED algorithm
  /\ UNCHANGED diskVars

\* an algorithm button: setAlgorithm(alg); reset()
SelectAlgorithm ==
  /\ ~crashed
  /\ \E alg \in Algorithms :
       /\ algorithm' = alg
       /\ interval' = Effect(<<>>, 0, FALSE, alg, FALSE)
  /\ resetState
  /\ event' = [NoEvent EXCEPT !.op = "select"]
  /\ UNCHANGED diskVars

\* the play/pause button: setIsPlaying(!isPlaying)
TogglePlay ==
  /\ ~crashed
  /\ isPlaying' = ~isPlaying
  /\ interval' = Effect(pages, currentStep, ~isPlaying, algorithm, FALSE)
  /\ event' = [NoEvent EXCEPT !.op = "toggle"]
  /\ UNCHANGED <<pages, sequence, currentStep, algorithm, pageFaults, narration,
                 timeouts, now, crashed, drive>>
  /\ UNCHANGED diskVars

Next ==
  \/ Next_click
  \/ Tick
  \/ Timeout
  \/ Reset
  \/ SelectAlgorithm
  \/ TogglePlay

Spec == Init /\ [][Next]_vars

\* handleNext invoked once the sequence is consumed.  The page never does this (the
\* button is disabled and the effect sets no interval); the action applies the
\* function where its terminal branch is taken.
Next_call ==
  /\ ~crashed
  /\ ~(currentStep < Len(sequence))
  /\ handleNext(Closure(pages, currentStep, algorithm), now, "call")
  /\ UNCHANGED <<sequence, algorithm, now, drive>>
  /\ UNCHANGED diskVars

NextCall ==
  \/ Next
  \/ Next_call

SpecCall == Init /\ [][NextCall]_vars

\* Request lists for the disk simulator: the list of the component and every list
\* of at most MaxRequests requests over a few positions around the initial head
\* (equal distances on both sides, repeated positions, requests at the head).
MaxRequests == 3
Positions == {20, 40, 50, 60, 80}

RECURSIVE Lists(_)
Lists(n) ==
  IF n = 0 THEN {<<>>}
  ELSE Lists(n - 1) \cup
       {Append(l, p) : l \in {k \in Lists(n - 1) : Len(k) = n - 1}, p \in Positions}

RequestLists == {DefaultRequests} \cup (Lists(MaxRequests) \ {<<>>})

InitDisk ==
  /\ PageInit
  /\ \E positions \in RequestLists : DiskInit(positions)

NextDisk ==
  \/ Disk_click
  \/ DiskTick
  \/ DiskReset
  \/ DiskSelect
  \/ DiskToggle

SpecDisk == InitDisk /\ [][NextDisk]_vars

\* Auto-play left to itself: the buttons are used only while the simulation is
\* paused, and once isPlaying is true only the interval acts.  The interval is set
\* anew by every render with isPlaying true and fires a second later, so a tick that
\* stays possible happens.
Paused_click ==
  /\ ~diskIsPlaying
  /\ Disk_click

PausedReset ==
  /\ ~diskIsPlaying
  /\ DiskReset

PausedSelect ==
  /\ ~diskIsPlaying
  /\ DiskSelect

PausedPlay ==
  /\ ~diskIsPlaying
  /\ DiskToggle

NextDiskAuto ==
  \/ Paused_click
  \/ PausedReset
  \/ PausedSelect
  \/ PausedPlay
  \/ DiskTick

SpecDiskAuto == InitDisk /\ [][NextDiskAuto]_vars /\ WF_vars(DiskTick)

----------------------------------------------------------------------------
(* Reference run: the state after k manual steps from the empty list, each   *)
(* taken after the replacement of the step before it has completed.  It is   *)
(* built from the same step and callback outcomes as the actions.            *)

RECURSIVE ManualRun(_, _)
ManualRun(alg, k) ==
  IF k = 0 THEN [pages |-> <<>>, pageFaults |-> 0, t |-> 0]
  ELSE LET s == ManualRun(alg, k - 1)
           o == StepOutcome(Closure(s.pages, k - 1, alg), s.pages, s.t + 1)
       IN [pages |-> IF o.replaces THEN TimeoutOutcome(o.callback, o.pages, s.t + 2).pages
                     ELSE o.pages,
           pageFaults |-> IF o.isPageFault THEN s.pageFaults + 1 ELSE s.pageFaults,
           t |-> s.t + 2]

\* the ids of the resident list, slot by slot
IdList(arr) == [i \in DOMAIN arr |-> arr[i].id]

Residents(arr) == {i \in DOMAIN arr : IsPage(arr[i])}

StepOps == {"click", "tick"}

----------------------------------------------------------------------------
(* Claims *)

\* C1: in every reachable state the resident list holds at most frameSize (3) pages.
C1_AtMostFrameSizePages == Cardinality(Residents(pages)) <= frameSize

\* C2: in every reachable state no two pages of the resident list have the same id.
C2_NoDuplicateIds ==
  \A i, j \in Residents(pages) : i # j => pages[i].id # pages[j].id

\* C3: under LRU, whenever a step (manual or auto-play) chooses a victim, the victim
\* is a page of the resident list whose last-access stamp is the smallest of the list.
C3_LruEvictsLeastRecentlyUsed ==
  (event.op \in StepOps /\ algorithm = "LRU" /\ event.index >= 0) =>
     /\ event.index + 1 \in Residents(pages)
     /\ \A j \in Residents(pages) : pages[event.index + 1].timestamp <= pages[j].timestamp

\* C4: under FIFO, every replacement removes the page of the resident list that was
\* loaded earliest (the pages leave in the order in which they entered).
C4_FifoEvictsEarliestLoaded ==
  [][(event'.op = "timeout" /\ ~event'.threw /\ algorithm = "FIFO"
        /\ Head(timeouts).algorithm = "FIFO" /\ Residents(pages) # {})
     => /\ 1 \in Residents(pages)
        /\ \A j \in Residents(pages) : pages[1].timestamp <= pages[j].timestamp]_vars

\* C5: a step (manual or auto-play) treats its reference as a fault exactly when the
\* referenced id is not in the resident list at the moment of the step.
C5_FaultIffNotResident ==
  [][event'.op \in StepOps =>
       (event'.isPageFault <=> sequence[currentStep + 1] \notin Ids(pages))]_vars

\* C6 (as claimed): a complete run from the initial state under FIFO over
\* [1,3,0,3,5,6,3] ends with exactly 5 faults.
C6_CompleteFifoRunHasFiveFaults ==
  (algorithm = "FIFO" /\ drive \in {"manual", "auto"} /\ sequence = DefaultSequence
     /\ currentStep = Len(sequence) /\ timeouts = <<>>) => pageFaults = 5

\* the fault count expected after each manual step of the FIFO run: the references
\* to 1, 3, 0, 5, 6 and the last reference to 3 are faults, the second reference
\* to 3 is a hit
FifoFaultsAfter == <<1, 2, 3, 3, 4, 5, 6>>

\* C6 (amended): a run from the initial state under FIFO over [1,3,0,3,5,6,3], driven
\* by manual steps each taken after the replacement of the step before it has
\* completed, has 1, 2, 3, 3, 4, 5, 6 faults after its steps and so ends with 6.
C6_ManualFifoRunHasSixFaults ==
  (algorithm = "FIFO" /\ drive = "manual" /\ sequence = DefaultSequence) =>
     pageFaults = FifoFaultsAfter[currentStep]

C6_Witness ==
  /\ algorithm = "FIFO" /\ drive = "manual" /\ sequence = DefaultSequence
  /\ currentStep = Len(sequence) /\ timeouts = <<>> /\ pageFaults = 6

\* C7: from a reset until the next step is taken, the resident list is empty (and
\* faultCount and stepIndex are 0): nothing of a step taken before the reset shows.
C7_ResetStaysClean ==
  (currentStep = 0 /\ pageFaults = 0) => pages = <<>>

\* C8: in every state after a step has advanced stepIndex, the page it referenced
\* (sequence[stepIndex-1], counted from 0) is in the resident list and no victim is
\* still in it.
C8_StepIsAtomic ==
  currentStep > 0 =>
     /\ sequence[currentStep] \in Ids(pages)
     /\ \A i \in Residents(pages) : ~pages[i].isLeaving

\* C9: a run driven by auto-play ticks shows, after each of its steps has completed,
\* the resident list and the fault count of the run driven by manual single steps.
C9_AutoPlayEqualsManual ==
  (drive = "auto" /\ timeouts = <<>>) =>
     /\ IdList(pages) = IdList(ManualRun(algorithm, currentStep).pages)
     /\ pageFaults = ManualRun(algorithm, currentStep).pageFaults

\* C10: faultCount changes by +1 in a step whose reference is not resident, by 0 in a
\* step whose reference is resident, goes to 0 in a reset and is changed by nothing else.
C10_FaultCountFollowsFaults ==
  [][/\ event'.op \in StepOps =>
          pageFaults' = pageFaults + (IF sequence[currentStep + 1] \in Ids(pages) THEN 0 ELSE 1)
     /\ event'.op \in {"reset", "select"} => pageFaults' = 0
     /\ event'.op \notin StepOps \cup {"reset", "select"} => pageFaults' = pageFaults]_vars


----------------------------------------------------------------------------
\* C11: once currentStep has reached the length of the sequence, a run of handleNext
\* (by a click, by the interval or by a direct call) leaves pageFaults, currentStep
\* and the pages unchanged, however often it is repeated.
C11_TerminalStepIsIdempotent ==
  [][(event'.op \in StepOps \cup {"call"} /\ ~(currentStep < Len(sequence)))
       => UNCHANGED <<pageFaults, currentStep, pages>>]_vars

\* handleNext has run on a consumed sequence and reported the end
C11_Witness ==
  /\ event.op = "call"
  /\ currentStep = Len(sequence)
  /\ narration = Message("complete", "", NoValue)

----------------------------------------------------------------------------
(* Disk scheduling *)

DiskStepOps == {"click", "tick"}

\* the list of the component with no request served
DefaultUnserved == [i \in DOMAIN DefaultRequests |-> Request(DefaultRequests[i])]

\* C12: under SSTF a step with some request unserved selects an unserved request whose
\* distance to the head is at most that of every unserved request, the earliest in
\* the list among those at that distance; from head 50 and the list of the component
\* the first request selected is 37 and the seek time after it is 13.
C12_SstfSelectsClosestEarliest ==
  [][(diskEvent'.op \in DiskStepOps /\ diskAlgorithm = "SSTF" /\ Unserved(requests) # {})
       => LET sel == diskEvent'.index
              dist(i) == Abs(requests[i].position - headPosition)
          IN  /\ sel \in Unserved(requests)
              /\ \A j \in Unserved(requests) :
                    /\ dist(sel) <= dist(j)
                    /\ dist(j) = dist(sel) => sel <= j
              /\ (requests = DefaultUnserved /\ headPosition = 50)
                    => /\ requests[sel].position = 37
                       /\ totalSeekTime' = 13]_vars

\* SSTF has chosen between 60 and 40, both 10 away from the head at 50, and taken
\* the first of the list
C12_Witness ==
  /\ diskAlgorithm = "SSTF"
  /\ diskEvent = [op |-> "click", index |-> 1]
  /\ requests = <<[position |-> 60, isServed |-> TRUE], [position |-> 40, isServed |-> FALSE]>>
  /\ headPosition = 60
  /\ totalSeekTime = 10

\* C13: under SCAN a step with direction up selects the unserved request with the
\* smallest position >= headPosition; if there is none it turns the direction down
\* and selects the unserved request with the largest position < headPosition.  With
\* direction down it selects the largest position <= headPosition, else turns up and
\* selects the smallest position > headPosition.  From head 50, direction up and the
\* list of the component the first request selected is 65.
C13_ScanSelectionRule ==
  [][(diskEvent'.op \in DiskStepOps /\ diskAlgorithm = "SCAN")
       => LET sel == diskEvent'.index
              U == Unserved(requests)
              pos(i) == requests[i].position
              ahead == {i \in U : IF direction = "up" THEN pos(i) >= headPosition
                                                        ELSE pos(i) <= headPosition}
              behind == U \ ahead
              nearer(i, j) == IF direction = "up" THEN pos(i) <= pos(j) ELSE pos(i) >= pos(j)
              turned == IF direction = "up" THEN "down" ELSE "up"
          IN  /\ ahead # {} => /\ direction' = direction
                               /\ sel \in ahead
                               /\ \A j \in ahead : nearer(sel, j)
              /\ ahead = {} => direction' = turned
              /\ (ahead = {} /\ behind # {}) => /\ sel \in behind
                                                /\ \A j \in behind : nearer(j, sel)
              /\ (requests = DefaultUnserved /\ headPosition = 50 /\ direction = "up")
                    => pos(sel) = 65]_vars

\* SCAN went up from 50 to 60, found nothing above, turned down and took 40, the
\* largest position below the head
C13_Witness ==
  /\ diskAlgorithm = "SCAN"
  /\ diskEvent = [op |-> "click", index |-> 1]
  /\ requests = <<[position |-> 40, isServed |-> TRUE], [position |-> 20, isServed |-> FALSE],
                  [position |-> 60, isServed |-> TRUE]>>
  /\ headPosition = 40
  /\ direction = "down"
  /\ totalSeekTime = 30

\* C14: under SCAN a step that keeps the direction selects a position not below the
\* one selected before (the head) while the direction is up and not above it while
\* the direction is down, and a step changes the direction only when no unserved
\* request is left in the current direction.
C14_ScanSweepIsMonotone ==
  [][(diskEvent'.op \in DiskStepOps /\ diskAlgorithm = "SCAN")
       => /\ (direction' = direction /\ direction = "up") => headPosition' >= headPosition
          /\ (direction' = direction /\ direction = "down") => headPosition' <= headPosition
          /\ direction' # direction =>
               \A i \in Unserved(requests) :
                  IF direction = "up" THEN requests[i].position < headPosition
                                      ELSE requests[i].position > headPosition]_vars

\* SCAN, sweeping down after a turn, has served 40 and then 20
C14_Witness ==
  /\ diskAlgorithm = "SCAN"
  /\ diskEvent.op \in DiskStepOps
  /\ requests = <<[position |-> 40, isServed |-> TRUE], [position |-> 20, isServed |-> TRUE],
                  [position |-> 60, isServed |-> TRUE]>>
  /\ headPosition = 20
  /\ direction = "down"
  /\ totalSeekTime = 50

\* C15: under SCAN a step reverses the direction only when the head has reached the
\* end of the disk in the current direction (the last position going up, position 0
\* going down).
C15_ScanReversesAtDiskEnd ==
  [][(diskEvent'.op \in DiskStepOps /\ diskAlgorithm = "SCAN" /\ direction' # direction)
       => IF direction = "up" THEN headPosition >= diskSize - 1
                              ELSE headPosition = 0]_vars

\* C16: every step adds to totalSeekTime the absolute difference between the head
\* position after it and the one before it, a reset or a selection of an algorithm
\* sets it to 0 and nothing else changes it: after N steps since the last reset it
\* is the sum of the N head movements.
C16_SeekTimeIsSumOfMoves ==
  [][/\ diskEvent'.op \in DiskStepOps
          => totalSeekTime' = totalSeekTime + Abs(headPosition' - headPosition)
     /\ diskEvent'.op \in {"reset", "select"} => totalSeekTime' = 0
     /\ diskEvent'.op \notin DiskStepOps \cup {"reset", "select"}
          => totalSeekTime' = totalSeekTime]_vars

\* FCFS has moved the head from 50 up to 60 and then down to 40
C16_Witness ==
  /\ diskAlgorithm = "FCFS"
  /\ diskEvent.op \in DiskStepOps
  /\ requests = <<[position |-> 60, isServed |-> TRUE], [position |-> 40, isServed |-> TRUE]>>
  /\ headPosition = 40
  /\ totalSeekTime = 30

\* C17: a step taken when every request is served pauses the simulation and changes
\* neither headPosition, totalSeekTime, the served flags nor the direction.
C17_TerminalDiskStepOnlyPauses ==
  [][(diskEvent'.op \in DiskStepOps /\ Unserved(requests) = {})
       => /\ diskIsPlaying' = FALSE
          /\ UNCHANGED <<headPosition, totalSeekTime, requests, direction>>]_vars

\* C18: under FCFS every step with some request unserved selects the unserved request
\* that is earliest in the list, whatever the head position.
C18_FcfsServesInArrivalOrder ==
  [][(diskEvent'.op \in DiskStepOps /\ diskAlgorithm = "FCFS" /\ Unserved(requests) # {})
       => /\ diskEvent'.index \in Unserved(requests)
          /\ \A j \in Unserved(requests) : diskEvent'.index <= j
          /\ \A j \in 1..(diskEvent'.index - 1) : requests[j].isServed]_vars

\* FCFS has served 80 and then 20 and left the request at the initial head for last
C18_Witness ==
  /\ diskAlgorithm = "FCFS"
  /\ diskEvent = [op |-> "click", index |-> 2]
  /\ requests = <<[position |-> 80, isServed |-> TRUE], [position |-> 20, isServed |-> TRUE],
                  [position |-> 50, isServed |-> FALSE]>>
  /\ headPosition = 20
  /\ totalSeekTime = 90

\* C19: a reset and a selection of an algorithm, in any state, leave every request
\* unserved, the head at 50, totalSeekTime 0, the direction up and the simulation
\* paused.
C19_DiskResetRestoresInitialState ==
  [][diskEvent'.op \in {"reset", "select"}
       => /\ Unserved(requests') = DOMAIN requests'
          /\ headPosition' = 50
          /\ totalSeekTime' = 0
          /\ direction' = "up"
          /\ diskIsPlaying' = FALSE]_vars

\* a reset under SCAN (the only algorithm that moves the direction)
C19_Witness ==
  /\ diskAlgorithm = "SCAN"
  /\ diskEvent.op = "reset"
  /\ Unserved(requests) = DOMAIN requests
  /\ headPosition = InitialHead
  /\ totalSeekTime = 0
  /\ direction = "up"
  /\ ~diskIsPlaying

\* C20: apart from resets and selections of an algorithm, a served request stays
\* served and the list keeps its positions; a step that selects a request finds it
\* unserved and sets the flag of exactly that request.
C20_ServedFlagsOnlyRise ==
  [][diskEvent'.op \notin {"reset", "select"}
       => /\ DOMAIN requests' = DOMAIN requests
          /\ \A i \in DOMAIN requests :
                /\ requests'[i].position = requests[i].position
                /\ requests[i].isServed => requests'[i].isServed
          /\ (diskEvent'.op \in DiskStepOps /\ diskEvent'.index # NoRequest)
                => /\ ~requests[diskEvent'.index].isServed
                   /\ requests' = [requests EXCEPT ![diskEvent'.index].isServed = TRUE]
          /\ (diskEvent'.op \notin DiskStepOps \/ diskEvent'.index = NoRequest)
                => requests' = requests]_vars

\* a step has served the first of two requests at the same position and left the
\* second unserved
C20_Witness ==
  /\ diskEvent = [op |-> "click", index |-> 1]
  /\ requests = <<[position |-> 40, isServed |-> TRUE], [position |-> 40, isServed |-> FALSE]>>
  /\ headPosition = 40

----------------------------------------------------------------------------
(* Page replacement, continued *)

\* C21: the interval runs handleNext only while isPlaying is true, so after a pause
\* no step happens except by the button; the play/pause button changes neither the
\* pages, currentStep, pageFaults nor the pending replacement callbacks, and a
\* pending callback can run whether or not the simulation is playing.
C21_PauseStopsTicksOnly ==
  [][/\ event'.op = "tick" => isPlaying
     /\ (~isPlaying /\ event'.op \in StepOps) => event'.op = "click"
     /\ event'.op = "toggle" => UNCHANGED <<pages, currentStep, pageFaults, timeouts>>
     /\ (timeouts # <<>> /\ ~crashed /\ now < MaxNow) => ENABLED Timeout]_vars

\* auto-play was paused between a tick that evicts a page and its replacement
\* callback, and the callback has put the new page into the list
C21_Witness ==
  /\ drive = "auto"
  /\ ~isPlaying
  /\ event.op = "timeout"
  /\ ~event.threw
  /\ timeouts = <<>>
  /\ event.newPage \in Ids(pages)
  /\ currentStep > frameSize

\* C22: a run of handleNext narrates "start" exactly when currentStep is 0 before
\* it, otherwise "fault" when the referenced page is not in the pages and "hit" when
\* it is, and "complete" exactly when currentStep has reached the sequence length.
C22_NarrationClassFollowsStep ==
  [][event'.op \in StepOps \cup {"call"}
       => narration'.class =
            IF ~(currentStep < Len(sequence)) THEN "complete"
            ELSE IF currentStep = 0 THEN "start"
            ELSE IF sequence[currentStep + 1] \in Ids(pages) THEN "hit"
            ELSE "fault"]_vars

\* C23: when the replacement of an evicted page completes, under FIFO and under LRU
\* the new page is in the slot the victim had and every other page is in the slot
\* it had before.
C23_ReplacedInPlace ==
  [][(event'.op = "timeout" /\ ~event'.threw)
       => LET victim == Head(timeouts).index + 1
          IN  /\ victim \in Residents(pages')
              /\ pages'[victim].id = Head(timeouts).newPage
              /\ \A j \in Residents(pages) \ {victim} :
                    j \in Residents(pages') /\ pages'[j].id = pages[j].id]_vars

\* C23 as the code has it: under LRU the new page is written into the slot of the
\* victim and every other page keeps its slot; under FIFO the first slot is dropped,
\* every other page moves one slot to the front and the new page takes the last slot.
C23_LruInPlaceFifoShifts ==
  [][(event'.op = "timeout" /\ ~event'.threw)
       => LET cb == Head(timeouts)
              victim == cb.index + 1
          IN  IF cb.algorithm = "LRU"
              THEN /\ victim \in Residents(pages')
                   /\ pages'[victim].id = cb.newPage
                   /\ \A j \in Residents(pages) \ {victim} :
                         j \in Residents(pages') /\ pages'[j].id = pages[j].id
              ELSE /\ Len(pages') = (IF pages = <<>> THEN 1 ELSE Len(pages))
                   /\ pages'[Len(pages')].id = cb.newPage
                   /\ \A j \in Residents(pages) \ {1} :
                         j - 1 \in Residents(pages') /\ pages'[j - 1].id = pages[j].id]_vars

\* the FIFO replacement of the manual run has completed: 1 left the first slot,
\* 3 and 0 moved to the front and 5 is last
C23_Witness ==
  /\ algorithm = "FIFO"
  /\ drive = "manual"
  /\ event.op = "timeout"
  /\ ~event.threw
  /\ IdList(pages) = <<3, 0, 5>>

\* C24: a step whose reference is in the pages changes neither the ids in the list,
\* their order nor pageFaults; under FIFO it changes no field of any page, under LRU
\* only the timestamp of the referenced page, which becomes greater than the
\* timestamp of every other page.
C24_HitChangesOnlyTheStamp ==
  [][(event'.op \in StepOps /\ sequence[currentStep + 1] \in Ids(pages))
       => /\ IdList(pages') = IdList(pages)
          /\ pageFaults' = pageFaults
          /\ algorithm = "FIFO" => pages' = pages
          /\ algorithm = "LRU" =>
               \A i \in DOMAIN pages :
                  IF pages[i].id = sequence[currentStep + 1]
                  THEN /\ pages'[i] = [pages[i] EXCEPT !.timestamp = pages'[i].timestamp]
                       /\ \A j \in Residents(pages') \ {i} :
                             pages'[i].timestamp > pages'[j].timestamp
                  ELSE pages'[i] = pages[i]]_vars

\* C26: in every reachable state 0 <= pageFaults <= currentStep <= length of the
\* sequence.
C26_FaultsWithinSteps ==
  /\ 0 <= pageFaults
  /\ pageFaults <= currentStep
  /\ currentStep <= Len(sequence)

----------------------------------------------------------------------------
(* Disk scheduling, continued *)

\* C25: with auto-play on and the buttons left alone, under FCFS, SSTF and SCAN every
\* request is eventually served and the simulation then pauses itself; while it is
\* paused the interval cannot run.
C25_AutoPlayServesAllThenPauses ==
  /\ diskIsPlaying ~> (Unserved(requests) = {} /\ ~diskIsPlaying)
  /\ [](~diskIsPlaying => ~ENABLED DiskTick)

\* auto-play under SCAN has served the eight requests of the component and the
\* tick after the last one has paused the simulation
C25_Witness ==
  /\ diskAlgorithm = "SCAN"
  /\ Len(requests) = Len(DefaultRequests)
  /\ Unserved(requests) = {}
  /\ ~diskIsPlaying
  /\ diskEvent = [op |-> "tick", index |-> NoRequest]
  /\ headPosition = 14
  /\ totalSeekTime = 302

====
